---- MODULE Spec2Model ----
(***************************************************************************)
(* State-machine model of record_data.py: the recording loop of main(),    *)
(* the CSV header/row writers and the file naming helper.                  *)
(*                                                                         *)
(* Time is counted in sampling periods (one tick per loop iteration).      *)
(* A file size is counted in completed line writes.  A None/0/0.0 value of *)
(* a Python variable that the code only tests for truthiness is 0.         *)
(* Output is kept as the set of kinds of message printed in an iteration.   *)
(***************************************************************************)
EXTENDS Integers, Sequences, FiniteSets, TLC

VARIABLES
    pc,                        \* program point of main()'s loop
    is_recording,
    current_file_handle,       \* index into files, 0 for None
    stable_state_count,
    last_runtime_state,
    has_recorded_before,
    file_number,
    current_session_timestamp,
    current_output_file,
    first_rtde_timestamp,
    timestamp_offset,
    file_start_time,
    i,
    samples_since_last_check,
    frequency,                 \* args.frequency, a rational number of Hz
    max_file_size_mb,          \* args.max_file_size, 0 for None
    max_duration_seconds,      \* args.max_duration * 60, 0 for None
    record_variables,
    args_variables,            \* args.variables: given or not, and its comma-separated fields
    variables_file,            \* record_variables_input.txt: exists, readable, its lines
    now,                       \* wall clock, in ticks
    files,                     \* every file object open() has returned
    lastHeader,                \* parts of the last header line written
    lastRow,                   \* parts of the last data line written
    lastFails,                 \* indices of the variables whose getter raised in lastRow
    check_result,              \* this iteration's state check: "none", "read", "failed"
    row_written,               \* this iteration has written its data row
    run,                       \* the current run of equal successful observations: its
                               \* length and the observation that preceded it; and the
                               \* number of not-PLAYING observations in a row made
                               \* while recording
    scenarioA,                 \* checks matched so far of STOPPED x5, PLAYING x3
    faults,                    \* exceptions raised so far by the device or the file system
    interrupted,               \* a KeyboardInterrupt was delivered in this iteration
    printed,                   \* the kinds of message printed in this iteration
    device_boot                \* the wall-clock time at which the device clock read zero

vars == << pc, is_recording, current_file_handle, stable_state_count,
           last_runtime_state, has_recorded_before, file_number,
           current_session_timestamp, current_output_file, first_rtde_timestamp,
           timestamp_offset, file_start_time, i, samples_since_last_check,
           frequency, max_file_size_mb, max_duration_seconds, record_variables,
           args_variables, variables_file, now, files, lastHeader, lastRow, lastFails, check_result, row_written,
           run, scenarioA, faults, interrupted, printed, device_boot >>

----------------------------------------------------------------------------
\* RuntimeState enum values
RUNTIME_STATE_STOPPING == 0
RUNTIME_STATE_STOPPED == 1
RUNTIME_STATE_PLAYING == 2
RUNTIME_STATE_PAUSING == 3
RUNTIME_STATE_PAUSED == 4
RUNTIME_STATE_RESUMING == 5

\* thresholds and periods written in main()
stable_state_threshold == 3
stop_state_threshold == 2
status_period == 10

\* bounds of the model
MaxIter == 11
MaxFaults == 1
MaxFrequency == 2
MaxLag == 1
MaxVars == 3
SizeLimit == 3
DurationLimit == 3
Epoch == 100
DeviceBoot == 60

\* None of a string-valued variable, and of a number-valued one
None == "None"
NoneNum == 0 - 1

\* the states the device is observed in, and the configurations explored
ObservedStates == {RUNTIME_STATE_STOPPED, RUNTIME_STATE_PLAYING, RUNTIME_STATE_PAUSED}
\* a frequency of num/den Hz
Hz(num, den) == [num |-> num, den |-> den]
Frequencies == { Hz(1, 2) } \cup { Hz(h, 1) : h \in 1..MaxFrequency }

\* int(args.frequency)
int(freq) == freq.num \div freq.den
\* (args.max_file_size, args.max_duration): neither, one or both given; a
\* segment of n rows holds n + 1 lines after n - 1 ticks, so with both the size
\* limit is met first, or both at once, or the duration limit first
Thresholds ==
    { << 0, 0 >>, << SizeLimit, 0 >>, << 0, DurationLimit >>,
      << SizeLimit, DurationLimit >>,
      << DurationLimit + 2, DurationLimit >>,
      << DurationLimit + 3, DurationLimit >> }
OutputName == "robot_data"
OutputExt == ".csv"
MainVariables == << "timestamp", "actual_TCP_force", "payload_cog" >>

----------------------------------------------------------------------------
\* write_csv_header: the variable_sizes table
HeaderSize6 ==
    { "target_q", "target_qd", "target_qdd", "target_current", "target_moment",
      "actual_q", "actual_qd", "actual_current", "joint_control_output",
      "actual_TCP_pose", "actual_TCP_speed", "actual_TCP_force",
      "target_TCP_pose", "target_TCP_speed", "joint_temperatures",
      "actual_joint_voltage", "payload_inertia", "ft_raw_wrench",
      "actual_current_as_torque", "joint_mode" }

HeaderSize3 == { "actual_tool_accelerometer", "payload_cog" }

HeaderSize1 ==
    { "timestamp", "actual_execution_time", "robot_mode", "robot_status_bits",
      "safety_mode", "safety_status_bits", "speed_scaling",
      "target_speed_fraction", "actual_momentum", "actual_main_voltage",
      "actual_robot_voltage", "actual_robot_current",
      "actual_digital_input_bits", "actual_digital_output_bits",
      "runtime_state", "standard_analog_input0", "standard_analog_input1",
      "standard_analog_output0", "standard_analog_output1", "payload",
      "speed_scaling_combined" }

\* variable_sizes.get(var, 1)
variable_sizes(var) ==
    IF var \in HeaderSize6 THEN 6
    ELSE IF var \in HeaderSize3 THEN 3
    ELSE 1

\* the columns one variable contributes to the header
HeaderColumns(var) ==
    LET size == variable_sizes(var)
    IN  IF size > 1
        THEN [j \in 1..size |-> var \o "_" \o ToString(j - 1)]
        ELSE << var >>

RECURSIVE HeaderPartsFrom(_, _)
HeaderPartsFrom(k, variables) ==
    IF k > Len(variables) THEN << >>
    ELSE HeaderColumns(variables[k]) \o HeaderPartsFrom(k + 1, variables)

\* header_parts of write_csv_header; the line written is their ","-join
write_csv_header(variables) == HeaderPartsFrom(1, variables)

----------------------------------------------------------------------------
\* write_csv_row: the if/elif dispatch over the variable name
RowScalar ==
    { "actual_execution_time", "robot_mode", "robot_status_bits",
      "safety_mode", "safety_status_bits", "speed_scaling",
      "target_speed_fraction", "actual_momentum", "actual_main_voltage",
      "actual_robot_voltage", "actual_robot_current",
      "actual_digital_input_bits", "actual_digital_output_bits",
      "runtime_state", "standard_analog_input0", "standard_analog_input1",
      "standard_analog_output0", "standard_analog_output1", "payload",
      "speed_scaling_combined" }

RowVector6 ==
    { "target_q", "target_qd", "target_qdd", "target_current", "target_moment",
      "actual_q", "actual_qd", "actual_current", "joint_control_output",
      "actual_TCP_pose", "actual_TCP_speed", "actual_TCP_force",
      "target_TCP_pose", "target_TCP_speed", "joint_temperatures",
      "actual_joint_voltage", "payload_inertia", "ft_raw_wrench",
      "actual_current_as_torque", "joint_mode" }

RowVector3 == { "actual_tool_accelerometer", "payload_cog" }

\* the name lists of the except branch
ExceptSize6 ==
    { "target_q", "target_qd", "target_qdd", "target_current", "target_moment",
      "actual_q", "actual_qd", "actual_current", "joint_control_output",
      "actual_TCP_pose", "actual_TCP_speed", "actual_TCP_force",
      "target_TCP_pose", "target_TCP_speed", "joint_temperatures",
      "actual_joint_voltage", "payload_inertia", "ft_raw_wrench",
      "actual_current_as_torque", "joint_mode" }

ExceptSize3 == { "actual_tool_accelerometer", "payload_cog" }

\* f"{v:.6f}" of a whole number
Fmt6(v) == ToString(v) \o ".000000"

Placeholder == "0.000000"

\* what a getter that succeeds returns: a vector of its declared length,
\* component j holding j; a scalar holding 1
GetterVector(n) == [j \in 1..n |-> j]
GetterScalar == 1

\* the value read by rtde_r.getTimestamp() at wall-clock time t
getTimestamp(t) == t - device_boot

\* var_size left at its default for every name
ExceptVarSizeAllOne(var) == 1

\* var_size of the except branch
ExceptVarSize(var) ==
    IF var \in ExceptSize6 THEN 6
    ELSE IF var \in ExceptSize3 THEN 3
    ELSE 1

\* the parts appended for one variable whose getter succeeds
FetchParts(var, device_timestamp, offset) ==
    IF var = "timestamp" THEN << Fmt6(device_timestamp + offset) >>
    ELSE IF var \in RowScalar THEN << Fmt6(GetterScalar) >>
    ELSE IF var \in RowVector6 THEN [j \in 1..6 |-> Fmt6(GetterVector(6)[j])]
    ELSE IF var \in RowVector3 THEN [j \in 1..3 |-> Fmt6(GetterVector(3)[j])]
    ELSE << Placeholder >>

\* VarParts with an except branch that appends nothing
VarPartsSkipsFailed(var, raised, device_timestamp, offset) ==
    IF raised THEN << >> ELSE FetchParts(var, device_timestamp, offset)

\* the parts appended for one variable: try / except Exception
VarParts(var, raised, device_timestamp, offset) ==
    IF raised
    THEN [j \in 1..ExceptVarSize(var) |-> Placeholder]
    ELSE FetchParts(var, device_timestamp, offset)

RECURSIVE RowPartsFrom(_, _, _, _, _)
RowPartsFrom(k, variables, fails, device_timestamp, offset) ==
    IF k > Len(variables) THEN << >>
    ELSE VarParts(variables[k], k \in fails, device_timestamp, offset)
         \o RowPartsFrom(k + 1, variables, fails, device_timestamp, offset)

\* row_parts of write_csv_row; the line written is their ","-join
write_csv_row(variables, fails, device_timestamp, offset) ==
    RowPartsFrom(1, variables, fails, device_timestamp, offset)

----------------------------------------------------------------------------
\* f"{file_number}": no zero padding
PadNone(n) == ToString(n)

\* f"{file_number:03d}"
Pad3(n) ==
    IF n < 10 THEN "00" \o ToString(n)
    ELSE IF n < 100 THEN "0" \o ToString(n)
    ELSE ToString(n)

\* datetime.now().strftime("%Y-%m-%d_%H-%M-%S"): the wall clock cut to whole seconds
Strftime(t, freq) == "T" \o ToString((t * freq.den) \div freq.num)

add_timestamp_to_filename(name, ext, number, base_timestamp) ==
    IF number # NoneNum
    THEN name \o "_" \o base_timestamp \o "_" \o Pad3(number) \o ext
    ELSE name \o "_" \o base_timestamp \o ext

\* get_file_size_mb(current_output_file): the size of the file written through handle h
get_file_size_mb(fs, h) == Len(fs[h].log)

----------------------------------------------------------------------------
\* A piece of text between two commas: the name it holds once stripped ("" when
\* it is empty or blank), and whether white space surrounds it.
Token(pad, name) == [pad |-> pad, name |-> name]

\* v.strip()
Strip(token) == token.name

\* a line of the variable file: a comment (its stripped text starts with '#')
\* or a list of comma-separated fields
CommentLine == [comment |-> TRUE, fields |-> << >>]
FieldsLine(fields) == [comment |-> FALSE, fields |-> fields]

\* args.variables when -v is not given, and when it is given as ''
NoArg == [given |-> FALSE, fields |-> << >>]
EmptyArg == [given |-> TRUE, fields |-> << Token(FALSE, "") >>]

\* the variable file when it does not exist, and when reading it raises
NoFile == [exists |-> FALSE, readable |-> FALSE, lines |-> << >>]
UnreadableFile == [exists |-> TRUE, readable |-> FALSE, lines |-> << >>]
ReadableFile(lines) == [exists |-> TRUE, readable |-> TRUE, lines |-> lines]

\* `if args.variables`: None and '' are falsy
ArgTruthy(arg) == arg.given /\ arg.fields # << Token(FALSE, "") >>

\* [v.strip() for v in args.variables.split(',')]
RECURSIVE StripAll(_)
StripAll(fields) ==
    IF fields = << >> THEN << >>
    ELSE << Strip(Head(fields)) >> \o StripAll(Tail(fields))

\* [v.strip() for v in line.split(',') if v.strip()]
RECURSIVE StripNonBlank(_)
StripNonBlank(fields) ==
    IF fields = << >> THEN << >>
    ELSE (IF Strip(Head(fields)) # "" THEN << Strip(Head(fields)) >> ELSE << >>)
         \o StripNonBlank(Tail(fields))

\* name.startswith('#'), for the names the model uses
StartsWithHash(name) == name \in { "#actual_q" }

\* `not line or line.startswith('#')` on the stripped line: the line is blank,
\* or the text before its first comma starts with '#' once stripped
LineSkipped(line) ==
    \/ line.comment
    \/ Len(line.fields) = 1 /\ Strip(line.fields[1]) = ""
    \/ StartsWithHash(Strip(line.fields[1]))

\* what one line of the file adds to variables
LineVariables(line) ==
    IF LineSkipped(line)
    THEN << >>
    ELSE IF Len(line.fields) > 1 THEN StripNonBlank(line.fields)
    ELSE << Strip(line.fields[1]) >>

RECURSIVE FileVariables(_)
FileVariables(lines) ==
    IF lines = << >> THEN << >>
    ELSE LineVariables(Head(lines)) \o FileVariables(Tail(lines))

\* the loop over variables with the seen set
RECURSIVE UniqueVariables(_, _)
UniqueVariables(variables, seen) ==
    IF variables = << >> THEN << >>
    ELSE IF Head(variables) \in seen THEN UniqueVariables(Tail(variables), seen)
    ELSE << Head(variables) >>
         \o UniqueVariables(Tail(variables), seen \cup { Head(variables) })

load_variables_from_file(file) ==
    IF ~file.exists THEN << >>
    ELSE IF ~file.readable THEN << >>
    ELSE UniqueVariables(FileVariables(file.lines), {})

\* lines 385-396: record_variables
ResolveVariables(arg, file) ==
    IF ArgTruthy(arg) THEN StripAll(arg.fields)
    ELSE load_variables_from_file(file)

\* lines 389-396 and 127: what the resolution prints
ResolveMessages(arg, file) ==
    IF ArgTruthy(arg) THEN { "variables_from_command_line" }
    ELSE (IF file.exists /\ ~file.readable THEN { "file_warning" } ELSE {})
         \cup (IF load_variables_from_file(file) # << >>
               THEN { "variables_from_file" }
               ELSE { "all_available_variables" })

\* -v timestamp,actual_TCP_force,payload_cog
MainArgs ==
    [given |-> TRUE,
     fields |-> [k \in 1..Len(MainVariables) |-> Token(FALSE, MainVariables[k])]]

----------------------------------------------------------------------------
\* where the loop body goes next; the tests involved read state and write none
PcStatusStep(iter) ==
    IF iter % status_period = 0 THEN "status" ELSE "wait"

PcRowStep(recording, handle, iter) ==
    IF recording /\ handle # 0 THEN "row" ELSE PcStatusStep(iter)

\* PcLoopTop with > in place of >= in the gate
PcLoopTopStrict(samples, check_interval, recording, handle, iter) ==
    IF samples > check_interval THEN "check"
    ELSE PcRowStep(recording, handle, iter)

PcLoopTop(samples, check_interval, recording, handle, iter) ==
    IF samples >= check_interval THEN "check"
    ELSE PcRowStep(recording, handle, iter)

RunningPcs ==
    { "check", "start_anchor", "start_open", "start_header", "start_commit",
      "stop", "row", "rot_close", "rot_open", "rot_header", "status", "wait" }

OpenFiles == { k \in 1..Len(files) : files[k].open }

HeaderToken == [k |-> "H", it |-> 0]
RowToken(iter) == [k |-> "R", it |-> iter]

OpenFile(fs, name) == Append(fs, [name |-> name, open |-> TRUE, log |-> << >>])
CloseFile(fs, h) == [fs EXCEPT ![h].open = FALSE]
WriteLine(fs, h, token) == [fs EXCEPT ![h].log = Append(@, token)]

----------------------------------------------------------------------------
Init ==
    /\ frequency \in Frequencies
    /\ \E limits \in Thresholds :
          /\ max_file_size_mb = limits[1]
          /\ max_duration_seconds = limits[2]
    \* frequencies below 1 Hz are explored without rotation limits
    /\ int(frequency) = 0 => (max_file_size_mb = 0 /\ max_duration_seconds = 0)
    /\ args_variables = MainArgs
    /\ variables_file = NoFile
    /\ record_variables = ResolveVariables(args_variables, variables_file)
    /\ is_recording = FALSE
    /\ current_file_handle = 0
    /\ stable_state_count = 0
    /\ last_runtime_state = NoneNum
    /\ has_recorded_before = FALSE
    /\ file_number = 1
    /\ current_session_timestamp = None
    /\ current_output_file = None
    /\ first_rtde_timestamp = NoneNum
    /\ timestamp_offset = 0
    /\ file_start_time = NoneNum
    /\ i = 0
    /\ samples_since_last_check = 0
    /\ now = Epoch
    /\ files = << >>
    /\ lastHeader = << >>
    /\ lastRow = << >>
    /\ lastFails = {}
    /\ check_result = "none"
    /\ row_written = FALSE
    /\ run = [len |-> 0, before |-> NoneNum, idle |-> 0]
    /\ scenarioA = 0
    /\ faults = 0
    /\ interrupted = FALSE
    /\ printed = {}
    /\ device_boot = DeviceBoot
    /\ pc = PcLoopTop(0, int(frequency), FALSE, 0, 0)

config == << frequency, max_file_size_mb, max_duration_seconds, record_variables,
             args_variables, variables_file >>
session == << current_session_timestamp, current_output_file, first_rtde_timestamp,
              timestamp_offset, file_start_time, file_number, has_recorded_before >>
lastLines == << lastHeader, lastRow, lastFails >>

----------------------------------------------------------------------------
\* the successful observations of scenario A, in order
ScenarioA ==
    << RUNTIME_STATE_STOPPED, RUNTIME_STATE_STOPPED, RUNTIME_STATE_STOPPED,
       RUNTIME_STATE_STOPPED, RUNTIME_STATE_STOPPED, RUNTIME_STATE_PLAYING,
       RUNTIME_STATE_PLAYING, RUNTIME_STATE_PLAYING >>

ScenarioOff == Len(ScenarioA) + 1

ScenarioStep(n, runtime_state) ==
    IF n < Len(ScenarioA) /\ ScenarioA[n + 1] = runtime_state THEN n + 1
    ELSE ScenarioOff

\* DebounceCount without the reset on a changed observation
DebounceCountNoReset(runtime_state, last, count) == count + 1

\* the debounce counter after one successful observation
DebounceCount(runtime_state, last, count) ==
    IF runtime_state = last THEN count + 1 ELSE 0

\* the guard of the start transition
StartFires(runtime_state, recording, count) ==
    /\ runtime_state = RUNTIME_STATE_PLAYING
    /\ ~recording
    /\ count >= stable_state_threshold

\* the guard of the stop transition (the elif branch)
StopFires(runtime_state, recording, count) ==
    /\ ~(runtime_state = RUNTIME_STATE_PLAYING /\ ~recording)
    /\ runtime_state # RUNTIME_STATE_PLAYING
    /\ recording
    /\ count >= stop_state_threshold

\* FirstFileNumber without has_recorded_before
FirstFileNumberIgnoresHistory(max_size, max_duration, recorded_before) ==
    IF max_size # 0 \/ max_duration # 0 THEN 1 ELSE NoneNum

\* the file_number argument of the first segment's name
FirstFileNumber(max_size, max_duration, recorded_before) ==
    IF max_size # 0 \/ max_duration # 0 \/ recorded_before THEN 1 ELSE NoneNum

\* ShouldSplit without the duration check
ShouldSplitSizeOnly(size, elapsed, max_size, max_duration) ==
    max_size # 0 /\ size >= max_size

\* should_split after the size and the duration checks
ShouldSplit(size, elapsed, max_size, max_duration) ==
    \/ max_size # 0 /\ size >= max_size
    \/ max_duration # 0 /\ elapsed >= max_duration

\* the rotation block is entered and decides to split
SplitNeeded(recording, size, elapsed, max_size, max_duration) ==
    /\ recording
    /\ max_size # 0 \/ max_duration # 0
    /\ ShouldSplit(size, elapsed, max_size, max_duration)

----------------------------------------------------------------------------
\* lines 431-442, 444-446, 478-479: a state check whose read succeeds
StateCheckRead(runtime_state) ==
    /\ pc = "check"
    /\ LET count == DebounceCount(runtime_state, last_runtime_state, stable_state_count)
       IN  /\ stable_state_count' = count
           /\ pc' = IF StartFires(runtime_state, is_recording, count) THEN "start_anchor"
                    ELSE IF StopFires(runtime_state, is_recording, count) THEN "stop"
                    ELSE PcRowStep(is_recording, current_file_handle, i)
    /\ samples_since_last_check' = 0
    /\ last_runtime_state' = runtime_state
    /\ run' = [len |-> IF runtime_state = last_runtime_state THEN run.len + 1 ELSE 1,
               before |-> IF runtime_state = last_runtime_state THEN run.before
                          ELSE last_runtime_state,
               idle |-> IF runtime_state # RUNTIME_STATE_PLAYING /\ is_recording
                        THEN run.idle + 1 ELSE 0]
    /\ scenarioA' = ScenarioStep(scenarioA, runtime_state)
    /\ check_result' = "read"
    /\ UNCHANGED << device_boot, printed, is_recording, current_file_handle, i, now, files, row_written,
                    faults, interrupted, config, session, lastLines >>

\* StateCheckFails that restarts the debounce window
StateCheckFailsResetsWindow ==
    /\ pc = "check"
    /\ faults < MaxFaults
    /\ faults' = faults + 1
    /\ samples_since_last_check' = 0
    /\ stable_state_count' = 0
    /\ check_result' = "failed"
    /\ scenarioA' = ScenarioOff
    /\ pc' = PcRowStep(is_recording, current_file_handle, i)
    /\ printed' = IF is_recording THEN printed \cup {"warning"} ELSE printed
    /\ UNCHANGED << device_boot, is_recording, current_file_handle,
                    last_runtime_state, i, now, files, row_written, run,
                    interrupted, config, session, lastLines >>

\* StateCheckFails that prints the warning whether recording or not
StateCheckFailsWarnsAlways ==
    /\ pc = "check"
    /\ faults < MaxFaults
    /\ faults' = faults + 1
    /\ samples_since_last_check' = 0
    /\ check_result' = "failed"
    /\ scenarioA' = ScenarioOff
    /\ pc' = PcRowStep(is_recording, current_file_handle, i)
    /\ printed' = printed \cup {"warning"}
    /\ UNCHANGED << device_boot, is_recording, current_file_handle, stable_state_count,
                    last_runtime_state, i, now, files, row_written, run,
                    interrupted, config, session, lastLines >>

\* lines 431-436, 489-492: getRuntimeState raises, the check is skipped
StateCheckFails ==
    /\ pc = "check"
    /\ faults < MaxFaults
    /\ faults' = faults + 1
    /\ samples_since_last_check' = 0
    /\ check_result' = "failed"
    /\ scenarioA' = ScenarioOff
    /\ pc' = PcRowStep(is_recording, current_file_handle, i)
    /\ printed' = IF is_recording THEN printed \cup {"warning"} ELSE printed
    /\ UNCHANGED << device_boot, is_recording, current_file_handle, stable_state_count,
                    last_runtime_state, i, now, files, row_written, run,
                    interrupted, config, session, lastLines >>

\* StartNaming without the reset of file_number
StartNamingKeepsCounter ==
    /\ current_session_timestamp' = Strftime(now, frequency)
    /\ file_number' = file_number
    /\ current_output_file' =
          add_timestamp_to_filename(OutputName, OutputExt,
              FirstFileNumber(max_file_size_mb, max_duration_seconds, has_recorded_before),
              Strftime(now, frequency))

\* lines 448-456: the session timestamp, the counter and the first file name
StartNaming ==
    /\ current_session_timestamp' = Strftime(now, frequency)
    /\ file_number' = 1
    /\ current_output_file' =
          add_timestamp_to_filename(OutputName, OutputExt,
              FirstFileNumber(max_file_size_mb, max_duration_seconds, has_recorded_before),
              Strftime(now, frequency))

\* StartAnchor that computes the offset in the first session only
StartAnchorFirstSessionOnly(lag) ==
    /\ pc = "start_anchor"
    /\ StartNaming
    /\ first_rtde_timestamp' = getTimestamp(now)
    /\ timestamp_offset' = IF has_recorded_before THEN timestamp_offset
                           ELSE (now + lag) - getTimestamp(now)
    /\ pc' = "start_open"
    /\ UNCHANGED << device_boot, printed, is_recording, current_file_handle, stable_state_count,
                    last_runtime_state, has_recorded_before, file_start_time, i,
                    samples_since_last_check, now, files, check_result, row_written,
                    run, scenarioA, faults, interrupted, config, lastLines >>

\* lines 448-461: naming, then the anchor; time.time() is read lag ticks after
\* the device timestamp it is paired with
StartAnchor(lag) ==
    /\ pc = "start_anchor"
    /\ StartNaming
    /\ first_rtde_timestamp' = getTimestamp(now)
    /\ timestamp_offset' = (now + lag) - getTimestamp(now)
    /\ pc' = "start_open"
    /\ UNCHANGED << device_boot, printed, is_recording, current_file_handle, stable_state_count,
                    last_runtime_state, has_recorded_before, file_start_time, i,
                    samples_since_last_check, now, files, check_result, row_written,
                    run, scenarioA, faults, interrupted, config, lastLines >>

\* line 459 raises: except Exception at 489, nothing printed while not recording
StartAnchorFails ==
    /\ pc = "start_anchor"
    /\ faults < MaxFaults
    /\ faults' = faults + 1
    /\ StartNaming
    /\ pc' = PcRowStep(is_recording, current_file_handle, i)
    /\ printed' = IF is_recording THEN printed \cup {"warning"} ELSE printed
    /\ UNCHANGED << device_boot, is_recording, current_file_handle, stable_state_count,
                    last_runtime_state, has_recorded_before, first_rtde_timestamp,
                    timestamp_offset, file_start_time, i, samples_since_last_check,
                    now, files, check_result, row_written, run, scenarioA,
                    interrupted, config, lastLines >>

\* line 464: current_file_handle = open(current_output_file, 'w')
StartOpen ==
    /\ pc = "start_open"
    /\ files' = OpenFile(files, current_output_file)
    /\ current_file_handle' = Len(files) + 1
    /\ pc' = "start_header"
    /\ UNCHANGED << device_boot, printed, is_recording, stable_state_count, last_runtime_state, i,
                    samples_since_last_check, now, check_result, row_written,
                    run, scenarioA, faults, interrupted, config, session, lastLines >>

\* StartOpenFails that restarts the debounce window
StartOpenFailsResetsCount ==
    /\ pc = "start_open"
    /\ faults < MaxFaults
    /\ faults' = faults + 1
    /\ stable_state_count' = 0
    /\ pc' = PcRowStep(is_recording, current_file_handle, i)
    /\ printed' = IF is_recording THEN printed \cup {"warning"} ELSE printed
    /\ UNCHANGED << device_boot, is_recording, current_file_handle,
                    last_runtime_state, i, samples_since_last_check, now, files,
                    check_result, row_written, run, scenarioA, interrupted,
                    config, session, lastLines >>

\* line 464 raises: except Exception at 489
StartOpenFails ==
    /\ pc = "start_open"
    /\ faults < MaxFaults
    /\ faults' = faults + 1
    /\ pc' = PcRowStep(is_recording, current_file_handle, i)
    /\ printed' = IF is_recording THEN printed \cup {"warning"} ELSE printed
    /\ UNCHANGED << device_boot, is_recording, current_file_handle, stable_state_count,
                    last_runtime_state, i, samples_since_last_check, now, files,
                    check_result, row_written, run, scenarioA, interrupted,
                    config, session, lastLines >>

\* line 465: write_csv_header on the new file
StartHeader ==
    /\ pc = "start_header"
    /\ files' = WriteLine(files, current_file_handle, HeaderToken)
    /\ lastHeader' = write_csv_header(record_variables)
    /\ pc' = "start_commit"
    /\ UNCHANGED << device_boot, printed, is_recording, current_file_handle, stable_state_count,
                    last_runtime_state, i, samples_since_last_check, now,
                    check_result, row_written, run, scenarioA, faults,
                    interrupted, config, session, lastRow, lastFails >>

\* line 465 raises: except Exception at 489; the handle stays assigned and open
StartHeaderFails ==
    /\ pc = "start_header"
    /\ faults < MaxFaults
    /\ faults' = faults + 1
    /\ pc' = PcRowStep(is_recording, current_file_handle, i)
    /\ printed' = IF is_recording THEN printed \cup {"warning"} ELSE printed
    /\ UNCHANGED << device_boot, is_recording, current_file_handle, stable_state_count,
                    last_runtime_state, i, samples_since_last_check, now, files,
                    check_result, row_written, run, scenarioA, interrupted,
                    config, session, lastLines >>

\* StartCommit whose iteration goes on past the row write
StartCommitSkipsRow ==
    /\ pc = "start_commit"
    /\ file_start_time' = now
    /\ is_recording' = TRUE
    /\ has_recorded_before' = TRUE
    /\ stable_state_count' = 0
    /\ pc' = PcStatusStep(i)
    /\ printed' = printed \cup {"started"}
    /\ UNCHANGED << device_boot, current_file_handle, last_runtime_state, file_number,
                    current_session_timestamp, current_output_file,
                    first_rtde_timestamp, timestamp_offset, i,
                    samples_since_last_check, now, files, check_result,
                    row_written, run, scenarioA, faults, interrupted, config,
                    lastLines >>

\* StartCommit without the reset of stable_state_count
StartCommitKeepsCount ==
    /\ pc = "start_commit"
    /\ file_start_time' = now
    /\ is_recording' = TRUE
    /\ has_recorded_before' = TRUE
    /\ pc' = PcRowStep(TRUE, current_file_handle, i)
    /\ printed' = printed \cup {"started"}
    /\ UNCHANGED << device_boot, current_file_handle, stable_state_count,
                    last_runtime_state, file_number,
                    current_session_timestamp, current_output_file,
                    first_rtde_timestamp, timestamp_offset, i,
                    samples_since_last_check, now, files, check_result,
                    row_written, run, scenarioA, faults, interrupted, config,
                    lastLines >>

\* lines 466-475
StartCommit ==
    /\ pc = "start_commit"
    /\ file_start_time' = now
    /\ is_recording' = TRUE
    /\ has_recorded_before' = TRUE
    /\ stable_state_count' = 0
    /\ pc' = PcRowStep(TRUE, current_file_handle, i)
    /\ printed' = printed \cup {"started"}
    /\ UNCHANGED << device_boot, current_file_handle, last_runtime_state, file_number,
                    current_session_timestamp, current_output_file,
                    first_rtde_timestamp, timestamp_offset, i,
                    samples_since_last_check, now, files, check_result,
                    row_written, run, scenarioA, faults, interrupted, config,
                    lastLines >>

\* StopRecording that closes the file and keeps the handle assigned
StopKeepsHandle ==
    /\ pc = "stop"
    /\ files' = IF current_file_handle # 0 THEN CloseFile(files, current_file_handle)
                ELSE files
    /\ is_recording' = FALSE
    /\ stable_state_count' = 0
    /\ pc' = PcRowStep(FALSE, current_file_handle, i)
    /\ printed' = printed \cup {"stopped"}
    /\ UNCHANGED << device_boot, current_file_handle, last_runtime_state, i,
                    samples_since_last_check, now, check_result, row_written,
                    run, scenarioA, faults, interrupted, config, session,
                    lastLines >>

\* lines 480-487: the stop transition
StopRecording ==
    /\ pc = "stop"
    /\ files' = IF current_file_handle # 0 THEN CloseFile(files, current_file_handle)
                ELSE files
    /\ current_file_handle' = 0
    /\ is_recording' = FALSE
    /\ stable_state_count' = 0
    /\ pc' = PcRowStep(FALSE, 0, i)
    /\ printed' = printed \cup {"stopped"}
    /\ UNCHANGED << device_boot, last_runtime_state, i, samples_since_last_check, now,
                    check_result, row_written, run, scenarioA, faults,
                    interrupted, config, session, lastLines >>

\* WriteRow that formats the row and does not write it to the file
WriteRowDropsLine(fails) ==
    /\ pc = "row"
    /\ Cardinality(fails) <= MaxFaults - faults
    /\ faults' = faults + Cardinality(fails)
    /\ lastRow' = write_csv_row(record_variables, fails, getTimestamp(now), timestamp_offset)
    /\ lastFails' = fails
    /\ row_written' = TRUE
    /\ pc' = IF SplitNeeded(is_recording,
                            get_file_size_mb(files, current_file_handle),
                            now - file_start_time,
                            max_file_size_mb, max_duration_seconds)
             THEN "rot_close"
             ELSE PcStatusStep(i)
    /\ UNCHANGED << device_boot, printed, is_recording, current_file_handle, stable_state_count,
                    last_runtime_state, i, samples_since_last_check, now, files,
                    check_result, run, scenarioA, interrupted, config, session,
                    lastHeader >>

\* lines 495-496 and 499-518: one data row, then the rotation triggers
WriteRow(fails) ==
    /\ pc = "row"
    /\ Cardinality(fails) <= MaxFaults - faults
    /\ faults' = faults + Cardinality(fails)
    /\ lastRow' = write_csv_row(record_variables, fails, getTimestamp(now), timestamp_offset)
    /\ lastFails' = fails
    /\ files' = WriteLine(files, current_file_handle, RowToken(i))
    /\ row_written' = TRUE
    /\ pc' = IF SplitNeeded(is_recording,
                            get_file_size_mb(files', current_file_handle),
                            now - file_start_time,
                            max_file_size_mb, max_duration_seconds)
             THEN "rot_close"
             ELSE PcStatusStep(i)
    /\ UNCHANGED << device_boot, printed, is_recording, current_file_handle, stable_state_count,
                    last_runtime_state, i, samples_since_last_check, now,
                    check_result, run, scenarioA, interrupted, config, session,
                    lastHeader >>

\* lines 371-372 raise: nothing catches it, the process dies with a traceback
\* and the file open
WriteRowFails ==
    /\ pc = "row"
    /\ faults < MaxFaults
    /\ faults' = faults + 1
    /\ pc' = "crashed"
    /\ printed' = printed \cup {"traceback"}
    /\ UNCHANGED << device_boot, is_recording, current_file_handle, stable_state_count,
                    last_runtime_state, i, samples_since_last_check, now, files,
                    check_result, row_written, run, scenarioA, interrupted,
                    config, session, lastLines >>

\* RotateClose that also restarts the debounce window
RotateCloseResetsDebounce ==
    /\ pc = "rot_close"
    /\ files' = IF current_file_handle # 0 THEN CloseFile(files, current_file_handle)
                ELSE files
    /\ file_number' = file_number + 1
    /\ current_output_file' =
          add_timestamp_to_filename(OutputName, OutputExt, file_number + 1,
                                    current_session_timestamp)
    /\ stable_state_count' = 0
    /\ pc' = "rot_open"
    /\ printed' = printed \cup {"split"}
    /\ UNCHANGED << device_boot, is_recording, current_file_handle,
                    last_runtime_state, has_recorded_before,
                    current_session_timestamp, first_rtde_timestamp,
                    timestamp_offset, file_start_time, i, samples_since_last_check,
                    now, check_result, row_written, run, scenarioA, faults,
                    interrupted, config, lastLines >>

\* RotateClose without the increment of file_number
RotateCloseKeepsCounter ==
    /\ pc = "rot_close"
    /\ files' = IF current_file_handle # 0 THEN CloseFile(files, current_file_handle)
                ELSE files
    /\ current_output_file' =
          add_timestamp_to_filename(OutputName, OutputExt, file_number,
                                    current_session_timestamp)
    /\ pc' = "rot_open"
    /\ printed' = printed \cup {"split"}
    /\ UNCHANGED << device_boot, is_recording, current_file_handle, stable_state_count,
                    last_runtime_state, has_recorded_before, file_number,
                    current_session_timestamp, first_rtde_timestamp,
                    timestamp_offset, file_start_time, i, samples_since_last_check,
                    now, check_result, row_written, run, scenarioA, faults,
                    interrupted, config, lastLines >>

\* lines 520-524: close, count, name the next segment
RotateClose ==
    /\ pc = "rot_close"
    /\ files' = IF current_file_handle # 0 THEN CloseFile(files, current_file_handle)
                ELSE files
    /\ file_number' = file_number + 1
    /\ current_output_file' =
          add_timestamp_to_filename(OutputName, OutputExt, file_number + 1,
                                    current_session_timestamp)
    /\ pc' = "rot_open"
    /\ printed' = printed \cup {"split"}
    /\ UNCHANGED << device_boot, is_recording, current_file_handle, stable_state_count,
                    last_runtime_state, has_recorded_before,
                    current_session_timestamp, first_rtde_timestamp,
                    timestamp_offset, file_start_time, i, samples_since_last_check,
                    now, check_result, row_written, run, scenarioA, faults,
                    interrupted, config, lastLines >>

\* line 527: current_file_handle = open(current_output_file, 'w')
RotateOpen ==
    /\ pc = "rot_open"
    /\ files' = OpenFile(files, current_output_file)
    /\ current_file_handle' = Len(files) + 1
    /\ pc' = "rot_header"
    /\ UNCHANGED << device_boot, printed, is_recording, stable_state_count, last_runtime_state, i,
                    samples_since_last_check, now, check_result, row_written,
                    run, scenarioA, faults, interrupted, config, session, lastLines >>

\* line 527 raises outside the inner try: the process dies
RotateOpenFails ==
    /\ pc = "rot_open"
    /\ faults < MaxFaults
    /\ faults' = faults + 1
    /\ pc' = "crashed"
    /\ printed' = printed \cup {"traceback"}
    /\ UNCHANGED << device_boot, is_recording, current_file_handle, stable_state_count,
                    last_runtime_state, i, samples_since_last_check, now, files,
                    check_result, row_written, run, scenarioA, interrupted,
                    config, session, lastLines >>

\* RotateHeader without the header write
RotateHeaderOmitted ==
    /\ pc = "rot_header"
    /\ file_start_time' = now
    /\ pc' = PcStatusStep(i)
    /\ printed' = printed \cup {"new_file"}
    /\ UNCHANGED << device_boot, is_recording, current_file_handle, stable_state_count,
                    last_runtime_state, has_recorded_before, file_number,
                    current_session_timestamp, current_output_file,
                    first_rtde_timestamp, timestamp_offset, i,
                    samples_since_last_check, now, files, check_result,
                    row_written, run, scenarioA, faults, interrupted, config,
                    lastLines >>

\* RotateHeader that also anchors the new segment
RotateHeaderReanchors ==
    /\ pc = "rot_header"
    /\ files' = WriteLine(files, current_file_handle, HeaderToken)
    /\ lastHeader' = write_csv_header(record_variables)
    /\ file_start_time' = now
    /\ \E lag \in 0..MaxLag : timestamp_offset' = (now + lag) - getTimestamp(now)
    /\ pc' = PcStatusStep(i)
    /\ printed' = printed \cup {"new_file"}
    /\ UNCHANGED << device_boot, is_recording, current_file_handle, stable_state_count,
                    last_runtime_state, has_recorded_before, file_number,
                    current_session_timestamp, current_output_file,
                    first_rtde_timestamp, i, samples_since_last_check, now,
                    check_result, row_written, run, scenarioA, faults,
                    interrupted, config, lastRow, lastFails >>

\* RotateHeader that also copies the row just written into the new segment
RotateHeaderRepeatsRow ==
    /\ pc = "rot_header"
    /\ files' = WriteLine(WriteLine(files, current_file_handle, HeaderToken),
                          current_file_handle, RowToken(i))
    /\ lastHeader' = write_csv_header(record_variables)
    /\ file_start_time' = now
    /\ pc' = PcStatusStep(i)
    /\ printed' = printed \cup {"new_file"}
    /\ UNCHANGED << device_boot, is_recording, current_file_handle, stable_state_count,
                    last_runtime_state, has_recorded_before, file_number,
                    current_session_timestamp, current_output_file,
                    first_rtde_timestamp, timestamp_offset, i,
                    samples_since_last_check, now, check_result, row_written,
                    run, scenarioA, faults, interrupted, config, lastRow,
                    lastFails >>

\* lines 528-530: header of the new segment, new elapsed-time origin
RotateHeader ==
    /\ pc = "rot_header"
    /\ files' = WriteLine(files, current_file_handle, HeaderToken)
    /\ lastHeader' = write_csv_header(record_variables)
    /\ file_start_time' = now
    /\ pc' = PcStatusStep(i)
    /\ printed' = printed \cup {"new_file"}
    /\ UNCHANGED << device_boot, is_recording, current_file_handle, stable_state_count,
                    last_runtime_state, has_recorded_before, file_number,
                    current_session_timestamp, current_output_file,
                    first_rtde_timestamp, timestamp_offset, i,
                    samples_since_last_check, now, check_result, row_written,
                    run, scenarioA, faults, interrupted, config, lastRow,
                    lastFails >>

\* line 528 raises outside the inner try: the process dies
RotateHeaderFails ==
    /\ pc = "rot_header"
    /\ faults < MaxFaults
    /\ faults' = faults + 1
    /\ pc' = "crashed"
    /\ printed' = printed \cup {"traceback"}
    /\ UNCHANGED << device_boot, is_recording, current_file_handle, stable_state_count,
                    last_runtime_state, i, samples_since_last_check, now, files,
                    check_result, row_written, run, scenarioA, interrupted,
                    config, session, lastLines >>

\* lines 533-559: the status line; it reads state and writes to stdout only
StatusDisplay ==
    /\ pc = "status"
    /\ pc' = "wait"
    /\ printed' = printed \cup {"status"}
    /\ UNCHANGED << device_boot, is_recording, current_file_handle, stable_state_count,
                    last_runtime_state, i, samples_since_last_check, now, files,
                    check_result, row_written, run, scenarioA, faults,
                    interrupted, config, session, lastLines >>

\* lines 561-563 and 427-431: the period ends, the next iteration begins
WaitPeriod ==
    /\ pc = "wait"
    /\ i < MaxIter
    /\ i' = i + 1
    /\ samples_since_last_check' = samples_since_last_check + 1
    /\ now' = now + 1
    /\ check_result' = "none"
    /\ row_written' = FALSE
    /\ interrupted' = FALSE
    /\ pc' = PcLoopTop(samples_since_last_check + 1, int(frequency), is_recording,
                       current_file_handle, i + 1)
    /\ printed' = {}
    /\ UNCHANGED << device_boot, is_recording, current_file_handle, stable_state_count,
                    last_runtime_state, files, run, scenarioA, faults, config,
                    session, lastLines >>

\* lines 565-570: KeyboardInterrupt reaches the handler of the outer try
KeyboardInterrupt ==
    /\ pc \in RunningPcs
    /\ interrupted' = TRUE
    /\ files' = IF current_file_handle # 0 THEN CloseFile(files, current_file_handle)
                ELSE files
    /\ pc' = "exited"
    /\ printed' = printed \cup {"total_samples"}
                  \cup (IF is_recording /\ file_number > 1 THEN {"file_count"} ELSE {})
    /\ UNCHANGED << device_boot, is_recording, current_file_handle, stable_state_count,
                    last_runtime_state, i, samples_since_last_check, now,
                    check_result, row_written, run, scenarioA, faults, config,
                    session, lastLines >>

\* lines 534-556: KeyboardInterrupt raised inside the status try block is caught
\* by its bare except; the fallback message is printed and the loop goes on
InterruptInStatus ==
    /\ pc = "status"
    /\ interrupted' = TRUE
    /\ pc' = "wait"
    /\ printed' = printed \cup {"status"}
    /\ UNCHANGED << device_boot, is_recording, current_file_handle, stable_state_count,
                    last_runtime_state, i, samples_since_last_check, now, files,
                    check_result, row_written, run, scenarioA, faults, config,
                    session, lastLines >>

\* a file object no variable refers to any more may be closed by the
\* interpreter's garbage collector, at a time the program does not control
Finalize(k) ==
    /\ pc \in RunningPcs
    /\ k \in OpenFiles
    /\ k # current_file_handle
    /\ files' = CloseFile(files, k)
    /\ UNCHANGED << device_boot, printed, pc, is_recording, current_file_handle, stable_state_count,
                    last_runtime_state, i, samples_since_last_check, now,
                    check_result, row_written, run, scenarioA, faults,
                    interrupted, config, session, lastLines >>

\* the device is restarted after a session has been stopped: its clock, read
\* by getTimestamp, starts again from zero
DeviceRestart ==
    /\ pc = "wait"
    /\ ~is_recording
    /\ "stopped" \in printed
    /\ device_boot # now
    /\ device_boot' = now
    /\ UNCHANGED << pc, is_recording, current_file_handle, stable_state_count,
                    last_runtime_state, i, samples_since_last_check, now, files,
                    check_result, row_written, run, scenarioA, faults,
                    interrupted, printed, config, session, lastLines >>

Next ==
    \/ \E runtime_state \in ObservedStates : StateCheckRead(runtime_state)
    \/ StateCheckFails
    \/ \E lag \in 0..MaxLag : StartAnchor(lag)
    \/ StartAnchorFails
    \/ StartOpen
    \/ StartOpenFails
    \/ StartHeader
    \/ StartHeaderFails
    \/ StartCommit
    \/ StopRecording
    \/ \E fails \in SUBSET (1..Len(record_variables)) : WriteRow(fails)
    \/ WriteRowFails
    \/ RotateClose
    \/ RotateOpen
    \/ RotateOpenFails
    \/ RotateHeader
    \/ RotateHeaderFails
    \/ StatusDisplay
    \/ WaitPeriod
    \/ KeyboardInterrupt
    \/ InterruptInStatus
    \/ \E k \in 1..Len(files) : Finalize(k)
    \/ DeviceRestart

Spec == Init /\ [][Next]_vars

----------------------------------------------------------------------------
\* The two CSV writers on their own: one header and one row for a variable
\* list drawn from VarLists, under every pattern of getter failures.

UnknownName == "not_a_variable"

CatalogNames == HeaderSize1 \cup HeaderSize3 \cup HeaderSize6

CsvNames ==
    { "timestamp", "robot_mode", "actual_TCP_force", "payload_cog", "joint_mode",
      UnknownName }

SeqsUpTo(S, n) == UNION { [1..m -> S] : m \in 0..n }

VarLists ==
    SeqsUpTo(CsvNames, MaxVars) \cup { << v >> : v \in CatalogNames \cup {""} }

InitCsv ==
    /\ record_variables \in VarLists
    /\ args_variables = NoArg
    /\ variables_file = NoFile
    /\ frequency = Hz(1, 1)
    /\ max_file_size_mb = 0
    /\ max_duration_seconds = 0
    /\ is_recording = FALSE
    /\ current_file_handle = 0
    /\ stable_state_count = 0
    /\ last_runtime_state = NoneNum
    /\ has_recorded_before = FALSE
    /\ file_number = 1
    /\ current_session_timestamp = None
    /\ current_output_file = None
    /\ first_rtde_timestamp = NoneNum
    /\ timestamp_offset \in 0..MaxLag
    /\ file_start_time = NoneNum
    /\ i = 0
    /\ samples_since_last_check = 0
    /\ now = Epoch
    /\ files = << >>
    /\ lastHeader = << >>
    /\ lastRow = << >>
    /\ lastFails = {}
    /\ check_result = "none"
    /\ row_written = FALSE
    /\ run = [len |-> 0, before |-> NoneNum, idle |-> 0]
    /\ scenarioA = 0
    /\ faults = 0
    /\ interrupted = FALSE
    /\ printed = {}
    /\ device_boot = DeviceBoot
    /\ pc = "csv_header"

controller == << is_recording, current_file_handle, stable_state_count,
                 last_runtime_state, i, samples_since_last_check, now, files,
                 check_result, run, scenarioA, faults, interrupted, printed >>

\* write_csv_header(file_handle, variables, rtde_r)
CsvWriteHeader ==
    /\ pc = "csv_header"
    /\ lastHeader' = write_csv_header(record_variables)
    /\ pc' = "csv_row"
    /\ UNCHANGED << device_boot, controller, config, session, lastRow, lastFails, row_written >>

\* write_csv_row(file_handle, variables, rtde_r, timestamp_offset)
CsvWriteRow(fails) ==
    /\ pc = "csv_row"
    /\ lastRow' = write_csv_row(record_variables, fails, getTimestamp(now), timestamp_offset)
    /\ lastFails' = fails
    /\ row_written' = TRUE
    /\ pc' = "csv_done"
    /\ UNCHANGED << device_boot, controller, config, session, lastHeader >>

NextCsv ==
    \/ CsvWriteHeader
    \/ \E fails \in SUBSET (1..Len(record_variables)) : CsvWriteRow(fails)

SpecCsv == InitCsv /\ [][NextCsv]_vars

----------------------------------------------------------------------------
\* The resolution of the variable list at the top of main(), followed by one
\* header and one row for the list it yields.

MaxFields == 2
MaxLines == 2

FieldTokens ==
    { Token(FALSE, "timestamp"), Token(TRUE, "actual_q"), Token(TRUE, ""),
      Token(FALSE, "#actual_q") }

FieldLists == { fields \in SeqsUpTo(FieldTokens, MaxFields) : fields # << >> }

ArgChoices == { NoArg, EmptyArg } \cup { [given |-> TRUE, fields |-> fields] : fields \in FieldLists }

FileLines == { CommentLine } \cup { FieldsLine(fields) : fields \in FieldLists }

FileChoices ==
    { NoFile, UnreadableFile } \cup { ReadableFile(lines) : lines \in SeqsUpTo(FileLines, MaxLines) }

InitVars ==
    /\ args_variables \in ArgChoices
    /\ variables_file \in FileChoices
    /\ ArgTruthy(args_variables) => Len(variables_file.lines) <= 1
    /\ record_variables = << >>
    /\ frequency = Hz(1, 1)
    /\ max_file_size_mb = 0
    /\ max_duration_seconds = 0
    /\ is_recording = FALSE
    /\ current_file_handle = 0
    /\ stable_state_count = 0
    /\ last_runtime_state = NoneNum
    /\ has_recorded_before = FALSE
    /\ file_number = 1
    /\ current_session_timestamp = None
    /\ current_output_file = None
    /\ first_rtde_timestamp = NoneNum
    /\ timestamp_offset = 0
    /\ file_start_time = NoneNum
    /\ i = 0
    /\ samples_since_last_check = 0
    /\ now = Epoch
    /\ files = << >>
    /\ lastHeader = << >>
    /\ lastRow = << >>
    /\ lastFails = {}
    /\ check_result = "none"
    /\ row_written = FALSE
    /\ run = [len |-> 0, before |-> NoneNum, idle |-> 0]
    /\ scenarioA = 0
    /\ faults = 0
    /\ interrupted = FALSE
    /\ printed = {}
    /\ device_boot = DeviceBoot
    /\ pc = "variables"

\* lines 385-396
ResolveRecordVariables ==
    /\ pc = "variables"
    /\ record_variables' = ResolveVariables(args_variables, variables_file)
    /\ printed' = printed \cup ResolveMessages(args_variables, variables_file)
    /\ pc' = "csv_header"
    /\ UNCHANGED << device_boot, is_recording, current_file_handle, stable_state_count,
                    last_runtime_state, i, samples_since_last_check, now, files,
                    check_result, run, scenarioA, faults, interrupted,
                    frequency, max_file_size_mb, max_duration_seconds,
                    args_variables, variables_file, session, lastLines,
                    row_written >>

NextVars ==
    \/ ResolveRecordVariables
    \/ CsvWriteHeader
    \/ \E fails \in SUBSET (1..Len(record_variables)) : CsvWriteRow(fails)

SpecVars == InitVars /\ [][NextVars]_vars

----------------------------------------------------------------------------
\* Properties of the recording loop (specification Spec) and of the CSV
\* writers (specification SpecCsv).

StartPcs == { "start_anchor", "start_open", "start_header", "start_commit" }

\* C1: in every reachable state at most one segment file is open and not yet
\* closed (single-writer invariant), failed start attempts included.
SingleWriter == Cardinality(OpenFiles) <= 1

\* a log is a header followed by data rows only
LogWellFormed(log) == \A n \in 1..Len(log) : (log[n].k = "H") <=> (n = 1)

\* the header write of segment k is the very next step
HeaderPending(k) == k = current_file_handle /\ pc \in { "start_header", "rot_header" }

\* C2: the header is the first write to every segment and is written once;
\* every later write to the segment is a data row.  A segment holds no header
\* only while its header write is the next step, or when that write raised or
\* the process was stopped before it.
HeaderOnceThenRows ==
    \A k \in 1..Len(files) :
        /\ LogWellFormed(files[k].log)
        /\ (faults = 0 /\ pc \in RunningPcs /\ ~HeaderPending(k))
              => Len(files[k].log) >= 1

\* C2 witness: a closed first segment and a rotated segment, both with rows
RotatedSegmentWithRows ==
    /\ Len(files) >= 2
    /\ ~files[1].open
    /\ Len(files[1].log) >= 2
    /\ Len(files[2].log) >= 2

\* C3: after STOPPED x5, PLAYING x3 the controller starts recording at the
\* 3rd consecutive PLAYING check, with a session timestamp taken at that check.
StartsAtThirdPlaying ==
    scenarioA = Len(ScenarioA) =>
        /\ pc \in StartPcs \/ is_recording
        /\ is_recording => current_session_timestamp = Strftime(now, frequency)

\* C4: while recording, the 2nd consecutive check that observes the same
\* not-PLAYING state after PLAYING fires the stop transition.
StopsAtSecondNotPlaying ==
    ( /\ check_result = "read"
      /\ is_recording
      /\ last_runtime_state # RUNTIME_STATE_PLAYING
      /\ run.before = RUNTIME_STATE_PLAYING
      /\ run.len = 2 ) => pc = "stop"

\* C5: a start never fires on fewer than 3 consecutive PLAYING observations,
\* a stop never fires on fewer than 2 consecutive equal not-PLAYING ones.
NeverFiresEarly ==
    /\ pc \in StartPcs =>
          /\ last_runtime_state = RUNTIME_STATE_PLAYING
          /\ run.len >= stable_state_threshold
    /\ pc = "stop" =>
          /\ last_runtime_state # RUNTIME_STATE_PLAYING
          /\ run.len >= stop_state_threshold

\* C5 witness: a stop transition has fired (after a start fired before it)
StopHasFired == pc = "stop" /\ has_recorded_before

\* C6: once an interrupt has ended the process, no segment file is left open.
ClosedAfterInterrupt == pc = "exited" => OpenFiles = {}

\* C7: every interrupt delivered ends the loop; none is swallowed.
InterruptTerminates == interrupted => pc = "exited"

\* C8: timestamp_offset is assigned only by the transition into RECORDING,
\* never while recording (so not by a rotation), and every row renders the
\* timestamp variable as the device timestamp plus that offset.
SingleAnchor ==
    /\ [][ timestamp_offset' # timestamp_offset =>
              (pc = "start_anchor" /\ ~is_recording) ]_vars
    /\ [][ (is_recording /\ is_recording') =>
              timestamp_offset' = timestamp_offset ]_vars
    /\ [][ (~row_written /\ row_written' /\ 1 \notin lastFails') =>
              lastRow'[1] = Fmt6(getTimestamp(now) + timestamp_offset) ]_vars

\* C8 witness: a row written to a rotated segment of a session anchored with a lag
RowInRotatedSegment ==
    /\ is_recording
    /\ file_number >= 2
    /\ row_written
    /\ pc = "wait"
    /\ timestamp_offset = DeviceBoot + MaxLag

\* C9: the row has as many fields as the header has column names, for every
\* variable list and every pattern of getter failures.
HeaderRowWidth == pc = "csv_done" => Len(lastRow) = Len(lastHeader)

\* C9 witness: a row made of placeholders only, for vectors and an unknown name
AllPlaceholderRow ==
    /\ pc = "csv_done"
    /\ record_variables = << "actual_TCP_force", "payload_cog", UnknownName >>
    /\ lastFails = {1, 2, 3}

\* the first column of variable k, by the header's arities
RECURSIVE ColumnStart(_, _)
ColumnStart(variables, k) ==
    IF k = 1 THEN 1
    ELSE ColumnStart(variables, k - 1) + variable_sizes(variables[k - 1])

\* the fields of variable k in a row
RowFieldsOf(row, variables, k) ==
    SubSeq(row, ColumnStart(variables, k),
           ColumnStart(variables, k) + variable_sizes(variables[k]) - 1)

\* C10: in a row built with getter failures, each failed variable holds
\* exactly arity-many "0.000000" fields, every other variable holds its
\* fetched values in its own columns, the row is written to the segment and
\* the loop goes on.
FetchFailureRecovered ==
    [][ (pc = "row" /\ ~row_written /\ row_written') =>
          /\ \A k \in 1..Len(record_variables) :
                RowFieldsOf(lastRow', record_variables, k) =
                   IF k \in lastFails'
                   THEN [j \in 1..variable_sizes(record_variables[k]) |-> "0.000000"]
                   ELSE FetchParts(record_variables[k], getTimestamp(now), timestamp_offset)
          /\ Len(lastRow') =
                ColumnStart(record_variables, Len(record_variables) + 1) - 1
          /\ files'[current_file_handle].log =
                Append(files[current_file_handle].log, RowToken(i))
          /\ pc' \in RunningPcs ]_vars

\* C10 witness: a row written while the getter of actual_TCP_force raised
ForceFetchFailedRow ==
    /\ row_written
    /\ record_variables[2] = "actual_TCP_force"
    /\ lastFails = {2}
    /\ lastRow[2] = "0.000000"
    /\ lastRow[7] = "0.000000"
    /\ lastRow[8] = "1.000000"
    /\ pc = "wait"

\* the places (segment, line) that hold the row of loop iteration iter
RowPlaces(fs, iter) ==
    { place \in UNION { { << k, n >> : n \in 1..Len(fs[k].log) } : k \in 1..Len(fs) } :
         fs[place[1]].log[place[2]] = RowToken(iter) }

\* C11: while recording continues every loop iteration writes exactly one row
\* to exactly one segment; the row written just before a rotation is the last
\* line of segment K and is not in segment K+1; the first row of segment K+1
\* is the row of the next loop iteration.
NoLossAcrossRotation ==
    /\ [][ (pc = "wait" /\ i' = i + 1 /\ is_recording) =>
              Cardinality(RowPlaces(files, i)) = 1 ]_vars
    /\ [][ files' # files => Cardinality(RowPlaces(files', i)) <= 1 ]_vars
    /\ [][ (pc = "rot_header" /\ pc' \in { "status", "wait" }) =>
              RowPlaces(files', i) =
                 { << current_file_handle - 1,
                      Len(files[current_file_handle - 1].log) >> } ]_vars
    /\ [][ ( /\ pc = "row" /\ row_written' /\ file_number >= 2
             /\ Len(files[current_file_handle].log) = 1 ) =>
              /\ files'[current_file_handle].log = << HeaderToken, RowToken(i) >>
              /\ RowPlaces(files, i - 1) =
                    { << current_file_handle - 1,
                         Len(files[current_file_handle - 1].log) >> } ]_vars

\* C11 witness: the first row of a rotated segment has been written, one
\* iteration after the last row of the segment before it
FirstRowAfterRotation ==
    /\ is_recording
    /\ file_number >= 2
    /\ pc = "wait"
    /\ files[current_file_handle].log = << HeaderToken, RowToken(i) >>
    /\ files[current_file_handle - 1].log[Len(files[current_file_handle - 1].log)]
          = RowToken(i - 1)

RotationPcs == { "rot_close", "rot_open", "rot_header" }

\* C12: the evaluation that follows a row write starts a rotation iff the size
\* limit is set and the segment has reached it, or the duration limit is set
\* and the time since the segment was opened has reached it; one evaluation
\* makes one rotation (one close, file_number + 1, one open) even when both
\* hold; with neither limit set there is never a rotation.
RotationTrigger ==
    /\ [][ (pc = "row" /\ row_written') =>
              ( pc' = "rot_close" <=>
                  \/ /\ max_file_size_mb # 0
                     /\ Len(files'[current_file_handle].log) >= max_file_size_mb
                  \/ /\ max_duration_seconds # 0
                     /\ now - file_start_time >= max_duration_seconds ) ]_vars
    /\ [][ file_number' > file_number => pc = "rot_close" ]_vars
    /\ [][ (pc = "rot_close" /\ pc' = "rot_open") =>
              /\ file_number' = file_number + 1
              /\ Len(files') = Len(files)
              /\ OpenFiles' = OpenFiles \ { current_file_handle } ]_vars
    /\ [][ (pc = "rot_open" /\ pc' = "rot_header") =>
              /\ file_number' = file_number
              /\ Len(files') = Len(files) + 1
              /\ OpenFiles' = OpenFiles \cup { Len(files) + 1 } ]_vars
    /\ [][ pc = "rot_header" =>
              /\ pc' \notin { "rot_close", "rot_open" }
              /\ file_number' = file_number
              /\ Len(files') = Len(files) ]_vars
    /\ [][ (max_file_size_mb = 0 /\ max_duration_seconds = 0) =>
              (pc' \notin RotationPcs /\ file_number' = 1) ]_vars

\* C12 witness: one rotation done by an evaluation at which the segment had
\* reached the size limit and the duration limit together
RotatedOnceOnBothLimits ==
    /\ max_file_size_mb # 0
    /\ max_duration_seconds # 0
    /\ pc = "wait"
    /\ file_start_time = now
    /\ file_number = 2
    /\ Len(files) = 2
    /\ OpenFiles = { 2 }
    /\ files[2].log = << HeaderToken >>
    /\ Len(files[1].log) >= max_file_size_mb
    /\ files[1].log[Len(files[1].log)].it - files[1].log[2].it >= max_duration_seconds

\* the name of segment number n (below 10) of the session stamped ts
SuffixedName(ts, n) == "robot_data_" \o ts \o "_00" \o ToString(n) \o ".csv"

\* C13: a rotation closes the current segment, adds exactly 1 to file_number,
\* opens a segment named <base>_<session timestamp>_<file_number, 3 digits><ext>
\* with the session timestamp unchanged, writes its header and resets
\* file_start_time; with a size limit only, the first rotation of a session
\* happens at the first evaluation whose size reaches the limit and not at
\* the one before, and takes the counter from 1 to 2 (suffix _002).
RotationSteps ==
    /\ [][ (pc = "rot_close" /\ pc' = "rot_open") =>
              /\ ~files'[current_file_handle].open
              /\ file_number' = file_number + 1
              /\ current_session_timestamp' = current_session_timestamp
              /\ current_output_file' =
                    SuffixedName(current_session_timestamp, file_number + 1) ]_vars
    /\ [][ (pc = "rot_open" /\ pc' = "rot_header") =>
              /\ current_file_handle' = Len(files')
              /\ files'[current_file_handle'] =
                    [name |-> current_output_file, open |-> TRUE, log |-> << >>]
              /\ current_session_timestamp' = current_session_timestamp ]_vars
    /\ [][ (pc = "rot_header" /\ pc' \in { "status", "wait" }) =>
              /\ files'[current_file_handle].log = << HeaderToken >>
              /\ lastHeader' = write_csv_header(record_variables)
              /\ file_start_time' = now
              /\ current_session_timestamp' = current_session_timestamp
              /\ current_output_file' = current_output_file ]_vars
    /\ [][ ( /\ max_file_size_mb # 0 /\ max_duration_seconds = 0
             /\ pc = "row" /\ row_written' /\ file_number = 1 ) =>
              ( pc' = "rot_close" <=>
                   Len(files'[current_file_handle].log) = max_file_size_mb ) ]_vars
    /\ [][ ( /\ max_file_size_mb # 0 /\ max_duration_seconds = 0
             /\ pc = "rot_close" /\ pc' = "rot_open" /\ file_number = 1 ) =>
              /\ file_number' = 2
              /\ current_output_file' =
                    "robot_data_" \o current_session_timestamp \o "_002.csv" ]_vars

\* C13 witness: with a size limit only, the second segment of a session has
\* just been opened under the name ending in _002
SecondSegmentOpened ==
    /\ max_file_size_mb = SizeLimit
    /\ max_duration_seconds = 0
    /\ pc = "wait"
    /\ file_number = 2
    /\ file_start_time = now
    /\ ~files[current_file_handle - 1].open
    /\ Len(files[current_file_handle - 1].log) = SizeLimit
    /\ files[current_file_handle] =
          [name |-> "robot_data_" \o current_session_timestamp \o "_002.csv",
           open |-> TRUE, log |-> << HeaderToken >>]

\* C14: the rotation triggers are evaluated, and so a rotation starts, only
\* in loop iterations that made a state check.
RotationOnlyAtChecks == pc = "rot_close" => check_result # "none"

\* the name of a segment of the session stamped ts that carries no counter
PlainName(ts) == "robot_data_" \o ts \o ".csv"

\* an earlier session has recorded: some segment holds its header
EarlierSessionRecorded == \E k \in 1..Len(files) : Len(files[k].log) >= 1

\* C15: the first segment of a session carries the _NNN counter iff a size or
\* duration limit is set or an earlier session has recorded; every rotated
\* segment carries it; no two segments opened in one run have the same name.
SegmentNaming ==
    /\ [][ (pc = "start_open" /\ Len(files') > Len(files)) =>
              files'[Len(files')].name =
                 IF \/ max_file_size_mb # 0
                    \/ max_duration_seconds # 0
                    \/ EarlierSessionRecorded
                 THEN SuffixedName(current_session_timestamp, 1)
                 ELSE PlainName(current_session_timestamp) ]_vars
    /\ [][ (pc = "rot_open" /\ Len(files') > Len(files)) =>
              /\ file_number >= 2
              /\ files'[Len(files')].name =
                    SuffixedName(current_session_timestamp, file_number) ]_vars
    /\ [][ Len(files') > Len(files) =>
              \A k \in 1..Len(files) : files[k].name # files'[Len(files')].name ]_vars

\* C15 witness: with no limit set, a second session has opened its first
\* segment, which carries _001 while the first session's segment carries none
SecondSessionSuffixed ==
    /\ max_file_size_mb = 0
    /\ max_duration_seconds = 0
    /\ is_recording
    /\ Len(files) = 2
    /\ \E t \in Epoch..(Epoch + MaxIter) : files[1].name = PlainName(Strftime(t, frequency))
    /\ Len(files[1].log) >= 2
    /\ files[2].name = SuffixedName(current_session_timestamp, 1)

\* C16: every transition from waiting to recording allocates a new session:
\* the session timestamp is the wall clock's at that transition, file_number
\* is 1 whatever the previous session left in it, the first segment is open
\* and holds its header, the anchor offset is the wall clock minus the device
\* timestamp read at the transition, and has_recorded_before is true.
SessionAllocated ==
    /\ [][ (pc = "start_anchor" /\ pc' = "start_open") =>
              /\ current_session_timestamp' = Strftime(now, frequency)
              /\ file_number' = 1
              /\ first_rtde_timestamp' = now - device_boot
              /\ timestamp_offset' + first_rtde_timestamp' \in now..(now + MaxLag) ]_vars
    /\ [][ (~is_recording /\ is_recording') =>
              /\ current_session_timestamp' = Strftime(now', frequency)
              /\ file_number' = 1
              /\ has_recorded_before'
              /\ current_file_handle' = Len(files')
              /\ files'[current_file_handle'] =
                    [name |-> current_output_file', open |-> TRUE,
                     log |-> << HeaderToken >>]
              /\ lastHeader' = write_csv_header(record_variables)
              /\ first_rtde_timestamp' = now' - device_boot'
              /\ timestamp_offset' + first_rtde_timestamp' \in now'..(now' + MaxLag)
              /\ file_start_time' = now' ]_vars

\* C16 witness: a second session has started after a first one that rotated
SecondSessionAfterRotation ==
    /\ is_recording
    /\ file_number = 1
    /\ Len(files) = 3
    /\ current_file_handle = 3
    /\ \E t \in Epoch..(Epoch + MaxIter) :
          files[2].name = SuffixedName(Strftime(t, frequency), 2)
    /\ files[3].name = SuffixedName(current_session_timestamp, 1)
    /\ files[3].log = << HeaderToken >>

sessionIdentity == << current_session_timestamp, file_number, timestamp_offset,
                      has_recorded_before >>

\* C17: the transition from recording to waiting closes the open segment and
\* sets current_file_handle to None; it leaves the session timestamp,
\* file_number, timestamp_offset and has_recorded_before unchanged and opens
\* no file, and while waiting no file is opened and none of these is changed
\* before a start transition fired by a debounced PLAYING observation.
StopReleases ==
    /\ [][ (is_recording /\ ~is_recording') =>
              /\ pc = "stop"
              /\ current_file_handle # 0
              /\ ~files'[current_file_handle].open
              /\ current_file_handle' = 0
              /\ Len(files') = Len(files)
              /\ UNCHANGED sessionIdentity ]_vars
    /\ [][ (~is_recording /\ pc \notin StartPcs) =>
              /\ Len(files') = Len(files)
              /\ UNCHANGED sessionIdentity ]_vars
    /\ [][ (~is_recording /\ pc \notin StartPcs /\ pc' \in StartPcs) =>
              /\ last_runtime_state' = RUNTIME_STATE_PLAYING
              /\ stable_state_count' >= stable_state_threshold ]_vars

\* C17 witness: a session that had rotated has been stopped
StoppedAfterRotation ==
    /\ ~is_recording
    /\ has_recorded_before
    /\ "stopped" \in printed
    /\ current_file_handle = 0
    /\ file_number = 2
    /\ OpenFiles = {}
    /\ pc = "wait"

\* C18: a state check whose getRuntimeState raises is skipped: is_recording,
\* the open segment and the debounce state are unchanged, a recording session
\* writes its row in that iteration, the loop goes on, and the warning is
\* printed iff the controller is recording.
SkippedCheck ==
    /\ [][ (pc = "check" /\ check_result' = "failed") =>
              /\ UNCHANGED << device_boot, is_recording, current_file_handle, files,
                              stable_state_count, last_runtime_state >>
              /\ pc' = IF is_recording THEN "row"
                       ELSE IF i % 10 = 0 THEN "status" ELSE "wait"
              /\ ("warning" \in printed') <=> is_recording ]_vars
    /\ [][ ("warning" \in printed' /\ "warning" \notin printed) => is_recording ]_vars
    /\ [][ check_result = "failed" => is_recording' = is_recording ]_vars
    /\ [][ (check_result = "failed" /\ pc = "wait" /\ i' = i + 1 /\ is_recording) =>
              /\ row_written
              /\ files[current_file_handle].open
              /\ Cardinality(RowPlaces(files, i)) = 1 ]_vars

\* C18 witness: a recording iteration whose state check failed has printed
\* the warning and written its row
FailedCheckWhileRecording ==
    /\ check_result = "failed"
    /\ is_recording
    /\ "warning" \in printed
    /\ row_written
    /\ pc = "wait"

\* this step is a file-system failure: open() or a header or row write raises
FileSystemFailure ==
    /\ faults' > faults
    /\ \/ pc \in { "start_open", "start_header", "rot_open", "rot_header" }
       \/ pc = "row" /\ ~row_written'

\* C19: a file-system failure when opening a segment or writing its header
\* or a row is surfaced to the user and is not followed by the loop going on.
FileFailureSurfaced ==
    [][ FileSystemFailure => (printed' # printed /\ pc' \notin RunningPcs) ]_vars

\* C20: once an interrupt has ended the loop, the summary has printed both
\* the sample count and the segment count, whatever the state it arrived in.
SummaryComplete ==
    pc = "exited" => { "total_samples", "file_count" } \subseteq printed

\* the number of data rows in a log
RECURSIVE RowsIn(_)
RowsIn(log) ==
    IF log = << >> THEN 0
    ELSE (IF Head(log).k = "R" THEN 1 ELSE 0) + RowsIn(Tail(log))

\* the number of data rows written to all segments since the program started
RECURSIVE RowsWritten(_)
RowsWritten(fs) ==
    IF fs = << >> THEN 0 ELSE RowsIn(Head(fs).log) + RowsWritten(Tail(fs))

\* line 568: the number printed after "Total samples:"
TotalSamplesPrinted == i

\* C21: the sample count printed in the interrupt summary is the number of
\* data rows written to all segments since the program started.
SummaryCountsRows ==
    (pc = "exited" /\ "total_samples" \in printed) =>
        TotalSamplesPrinted = RowsWritten(files)

\* the variable list has been resolved
VariablesResolved == pc \in { "csv_header", "csv_row", "csv_done" }

\* the names in a list
NamesOf(variables) == { variables[k] : k \in 1..Len(variables) }

\* C22: an explicit list is used as given; with no explicit list a variable
\* file that holds names supplies the list; with no explicit list and no names
\* from a file the catalog's variables are recorded, so the header and the row
\* are not empty.
VariableResolution ==
    VariablesResolved =>
        /\ ArgTruthy(args_variables) =>
              /\ Len(record_variables) = Len(args_variables.fields)
              /\ \A k \in 1..Len(record_variables) :
                    record_variables[k] = args_variables.fields[k].name
        /\ (~ArgTruthy(args_variables)
              /\ load_variables_from_file(variables_file) # << >>) =>
              record_variables = load_variables_from_file(variables_file)
        /\ (~ArgTruthy(args_variables)
              /\ load_variables_from_file(variables_file) = << >>) =>
              /\ NamesOf(record_variables) = CatalogNames
              /\ pc = "csv_done" => (lastHeader # << >> /\ lastRow # << >>)

\* the loop periods between two polls of the debouncer
checkPeriod == IF int(frequency) >= 1 THEN int(frequency) ELSE 1

\* C23 as stated: the debouncer is polled exactly in the iterations that are
\* a positive multiple of check_interval = int(frequency) periods after the
\* start, so two polls are exactly check_interval periods apart and none comes
\* before the first check_interval periods.
ThrottledChecks ==
    /\ pc = "check" => \E k \in 1..(i + 1) : i = k * int(frequency)
    /\ (pc = "wait" /\ check_result = "none") =>
          ~ \E k \in 1..(i + 1) : i = k * int(frequency)

\* C23 amended: two polls are exactly max(1, int(frequency)) periods apart,
\* none comes before the first int(frequency) periods, and an iteration polls
\* at most once.
ThrottledChecksAmended ==
    /\ pc = "check" =>
          /\ i % checkPeriod = 0
          /\ i >= int(frequency)
          /\ check_result = "none"
    /\ (pc = "wait" /\ check_result = "none") =>
          ~ (i % checkPeriod = 0 /\ i >= int(frequency))

\* C23 witness: the second poll at 2 Hz, two periods after the first
SecondPollAtTwoHz ==
    /\ frequency = Hz(2, 1)
    /\ pc = "check"
    /\ i = 4
    /\ last_runtime_state # NoneNum

StatusSwallowsInterrupt == pc = "status" /\ interrupted' /\ pc' # "exited"

\* C25: the status-line step, with its state read and its failure handling,
\* changes nothing the controller decides on (recording flag, handle, debounce
\* state, session, counters, files), and an interrupt arriving during it ends
\* the loop as it does anywhere else.
StatusStepInert ==
    [][ (pc = "status" /\ pc' # pc) =>
          /\ UNCHANGED << is_recording, stable_state_count, last_runtime_state,
                          samples_since_last_check, i, session, config >>
          /\ ~interrupted' => UNCHANGED << current_file_handle, files >>
          /\ ~StatusSwallowsInterrupt ]_vars

\* C26: the loop leaves its WAITING/RECORDING cycle only through an external
\* interrupt, never because of a failure raised inside an iteration.
LeavesOnlyOnInterrupt == pc \notin RunningPcs => (pc = "exited" /\ interrupted)

\* C27: a transition that fires (is_recording changes) leaves
\* stable_state_count at 0; a start fires only from not recording on a run of
\* PLAYING observations and a stop only from recording on a run of one
\* not-PLAYING state, so the state that fired a transition cannot fire the next
\* one; the first transition is a start and each later one is the opposite of
\* the one before; and each fires only on a full window of its own state:
\* stable_state_threshold + 1 equal observations for a start,
\* stop_state_threshold + 1 for a stop, all made after the previous transition.
StableTransitionOnce ==
    /\ [][ is_recording' # is_recording =>
              /\ stable_state_count' = 0
              /\ pc = (IF is_recording THEN "stop" ELSE "start_commit")
              /\ "started" \in printed' \ printed \/ "stopped" \in printed' \ printed ]_vars
    /\ [](pc \in StartPcs =>
            /\ ~is_recording
            /\ last_runtime_state = RUNTIME_STATE_PLAYING
            /\ run.len >= stable_state_threshold + 1)
    /\ [](pc = "stop" =>
            /\ is_recording
            /\ has_recorded_before
            /\ last_runtime_state # RUNTIME_STATE_PLAYING
            /\ run.len >= stop_state_threshold + 1
            /\ run.idle >= stop_state_threshold + 1)
    /\ [][ (pc = "check" /\ pc' \in { "start_anchor", "stop" }) =>
              stable_state_count' >= (IF is_recording THEN stop_state_threshold
                                      ELSE stable_state_threshold) ]_vars

\* C27 witness: a second start fires, on its own window of PLAYING
\* observations made after the stop of the first session
SecondStartFires ==
    /\ pc = "start_anchor"
    /\ has_recorded_before
    /\ stable_state_count = stable_state_threshold
    /\ run.before # NoneNum

\* C28: with every state read and every file operation succeeding, a run of
\* stable_state_threshold + 1 PLAYING checks while not recording has started a
\* recording, and a run of stop_state_threshold + 1 not-PLAYING checks while
\* recording has stopped it: the reaction comes within that many checks.
BoundedReaction ==
    faults = 0 =>
        /\ (~is_recording /\ last_runtime_state = RUNTIME_STATE_PLAYING
              /\ run.len >= stable_state_threshold + 1) =>
              pc \in StartPcs \cup { "exited" }
        /\ (is_recording /\ run.idle >= stop_state_threshold + 1) =>
              pc \in { "stop", "exited" }

\* C29: a rotation happens while recording and every step of it leaves
\* is_recording, the session timestamp, timestamp_offset, has_recorded_before,
\* last_runtime_state and stable_state_count (and the anchor reading, the
\* iteration counters and the configuration) unchanged; what it changes is
\* among the handle, current_output_file, file_number and file_start_time,
\* with file_number and current_output_file changed by its first step.
RotationFrame ==
    /\ [](pc \in RotationPcs => is_recording)
    /\ [][ (pc \in RotationPcs) =>
              /\ UNCHANGED << is_recording, current_session_timestamp,
                              timestamp_offset, has_recorded_before,
                              last_runtime_state, stable_state_count,
                              first_rtde_timestamp, i, samples_since_last_check,
                              config >>
              /\ is_recording' ]_vars
    /\ [][ (pc = "rot_close" /\ pc' = "rot_open") =>
              /\ file_number' # file_number
              /\ current_output_file' # current_output_file ]_vars

\* C29 witness: a rotation has completed in the middle of a debounce window
RotatedWithinWindow ==
    /\ "new_file" \in printed
    /\ pc = "wait"
    /\ is_recording
    /\ stable_state_count > 0
    /\ file_number = 2

\* C30: every transition into RECORDING computes the offset anew as the wall
\* clock minus the device timestamp read at that transition, whatever the
\* offset of an earlier session was, so that in every session, also one that
\* follows a restart of the device clock, each row's timestamp is the device
\* timestamp plus (wall clock at this session's anchor - device timestamp at
\* this session's anchor): the wall clock of the row, late by the anchor's
\* lag at most.
ReAnchoredEverySession ==
    /\ [][ (pc = "start_anchor" /\ pc' = "start_open") =>
              \E lag \in 0..MaxLag :
                 timestamp_offset' = (now + lag) - getTimestamp(now) ]_vars
    /\ [](is_recording => timestamp_offset - device_boot \in 0..MaxLag)
    /\ [][ (~row_written /\ row_written' /\ 1 \notin lastFails') =>
              \E lag \in 0..MaxLag :
                 /\ timestamp_offset = device_boot + lag
                 /\ lastRow'[1] = Fmt6(now + lag) ]_vars

\* C30 witness: a row written in a session that started after the device
\* clock had restarted
RowAfterDeviceRestart ==
    /\ device_boot # DeviceBoot
    /\ is_recording
    /\ row_written
    /\ 1 \notin lastFails
    /\ pc = "wait"
    /\ timestamp_offset = device_boot + MaxLag

\* C31: at every iteration boundary is_recording is true exactly when
\* current_file_handle refers to an open file, also after a start transition
\* that failed part-way.
HandleOpenIffRecording ==
    pc = "wait" =>
        (is_recording <=>
            (current_file_handle # 0 /\ current_file_handle \in OpenFiles))

\* the names a file holds under the documented format: the non-blank stripped
\* fields of its lines that are neither blank nor comments
FileNames(file) ==
    UNION { { Strip(file.lines[l].fields[f]) : f \in 1..Len(file.lines[l].fields) } :
              l \in { k \in 1..Len(file.lines) : ~LineSkipped(file.lines[k]) } }
       \ { "" }

\* the place of the first occurrence of a name, lines first, fields second
FirstPlace(file, name) ==
    LET places == { l * (MaxFields + 1) + f :
                      l \in { k \in 1..Len(file.lines) : ~LineSkipped(file.lines[k]) },
                      f \in 1..MaxFields }
        holding == { p \in places :
                       LET l == p \div (MaxFields + 1)
                           f == p % (MaxFields + 1)
                       IN  f <= Len(file.lines[l].fields)
                           /\ Strip(file.lines[l].fields[f]) = name }
    IN  CHOOSE p \in holding : \A q \in holding : p <= q

\* a list of names written back as a file, one name per line
OnePerLine(names) ==
    ReadableFile([k \in 1..Len(names) |-> FieldsLine(<< Token(FALSE, names[k]) >>)])

\* the list comes from the file: no -v was given and the file was read
LoadedFromFile ==
    /\ VariablesResolved
    /\ ~ArgTruthy(args_variables)
    /\ variables_file.exists
    /\ variables_file.readable

\* the first three parts of C32: names, no duplicates, order of first occurrence
LoadedInOrder ==
    LoadedFromFile =>
        /\ NamesOf(record_variables) = FileNames(variables_file)
        /\ \A a, b \in 1..Len(record_variables) :
              a < b => FirstPlace(variables_file, record_variables[a])
                         < FirstPlace(variables_file, record_variables[b])

\* C32: load_variables_from_file returns the names of the file (one per line
\* or comma-separated, blank lines and lines starting with '#' skipped) in
\* order of first occurrence and without duplicates, and reading its own
\* output written back as a file gives the same list.
LoadVariablesLaw ==
    /\ LoadedInOrder
    /\ LoadedFromFile =>
          load_variables_from_file(OnePerLine(record_variables)) = record_variables

\* C33: an iteration writes one data row iff is_recording is true after its
\* state check: past the row step, a row of this iteration exists exactly when
\* recording, and it is one row; the iteration that starts the recording writes
\* the first row of the new segment, the iteration that stops it writes none,
\* and a row is only ever written while recording.
RowsExactlyWhileRecording ==
    /\ [](pc \in { "status", "wait" } =>
            /\ row_written <=> is_recording
            /\ Cardinality(RowPlaces(files, i)) = (IF is_recording THEN 1 ELSE 0))
    /\ []((pc = "wait" /\ "started" \in printed) =>
            \E k \in 1..Len(files) : files[k].log = << HeaderToken, RowToken(i) >>)
    /\ []((pc = "wait" /\ "stopped" \in printed) => ~row_written)
    /\ [][ (~row_written /\ row_written') => (is_recording /\ pc = "row") ]_vars

\* C33 witness: the iteration that stopped a recording with rows ends without a row
StopIterationWritesNoRow ==
    /\ pc = "wait"
    /\ "stopped" \in printed
    /\ ~row_written
    /\ RowsWritten(files) >= stop_state_threshold + 1
    /\ RowPlaces(files, i) = {}
    /\ RowPlaces(files, i - 1) # {}

\* C34: a state check whose read fails leaves last_runtime_state and
\* stable_state_count as they were and resets samples_since_last_check, so the
\* next successful read of the same state counts on from the value before the
\* failure, and a transition fires on a window that a failed read interrupted.
FailedReadKeepsWindow ==
    /\ [][ (pc = "check" /\ check_result' = "failed") =>
              /\ UNCHANGED << last_runtime_state, stable_state_count, is_recording,
                              current_file_handle >>
              /\ samples_since_last_check' = 0 ]_vars
    /\ [][ (pc = "check" /\ check_result' = "read"
              /\ last_runtime_state' = last_runtime_state) =>
              stable_state_count' = stable_state_count + 1 ]_vars
    /\ [][ (pc = "check" /\ pc' \in { "start_anchor", "stop" }) =>
              run'.len = stable_state_count' + 1 ]_vars

\* C34 witness: a start fires on a window of PLAYING observations that a failed
\* read interrupted: four equal observations, made over more than four checks
StartAcrossFailedRead ==
    /\ pc = "start_anchor"
    /\ faults = 1
    /\ ~has_recorded_before
    /\ run.len = stable_state_threshold + 1
    /\ run.before = NoneNum
    /\ i = (stable_state_threshold + 1) * checkPeriod + (IF int(frequency) = 0 THEN 0 ELSE int(frequency))

\* the step is a start attempt that fails: line 459, 464 or 465 raises
StartAttemptFails == pc \in StartPcs /\ pc' \notin StartPcs \cup { "row", "exited" }

\* C35: a start transition that fails part-way leaves the controller waiting
\* with stable_state_count not reset and prints no warning, although the
\* session timestamp, file_number and current_output_file of the attempt have
\* been assigned; the next check that observes PLAYING attempts the start
\* again, with the session timestamp of that moment, on the window it has.
FailedStartRetried ==
    /\ [][ StartAttemptFails =>
              /\ ~is_recording'
              /\ stable_state_count' = stable_state_count
              /\ stable_state_count' >= stable_state_threshold
              /\ "warning" \notin printed'
              /\ "traceback" \notin printed'
              /\ pc' \in { "status", "wait" }
              /\ current_session_timestamp' = Strftime(now, frequency)
              /\ file_number' = 1
              /\ current_output_file' =
                    add_timestamp_to_filename(OutputName, OutputExt,
                        FirstFileNumber(max_file_size_mb, max_duration_seconds,
                                        has_recorded_before),
                        current_session_timestamp') ]_vars
    /\ [][ (pc = "check" /\ check_result' = "read" /\ ~is_recording
              /\ last_runtime_state = RUNTIME_STATE_PLAYING
              /\ last_runtime_state' = RUNTIME_STATE_PLAYING
              /\ stable_state_count >= stable_state_threshold) =>
              pc' = "start_anchor" ]_vars
    /\ [][ (pc = "start_anchor" /\ pc' \notin { "start_anchor", "exited" }
              /\ stable_state_count > stable_state_threshold) =>
              current_session_timestamp' = Strftime(now, frequency) ]_vars

\* C35 witness: the retry of a failed start has begun, one check after the
\* failure, named after the time of the retry
StartRetried ==
    /\ pc = "start_open"
    /\ faults = 1
    /\ ~is_recording
    /\ stable_state_count = stable_state_threshold + 1
    /\ current_session_timestamp = Strftime(now, frequency)
    /\ run.len = stable_state_threshold + 2

\* the segments: the files that have received their header
Segments == { k \in 1..Len(files) : files[k].log # << >> }

\* C36: the segments opened within one session carry the counters 1, 2, ..., n
\* in the order they are opened, without gap or repeat, under that session's
\* timestamp: a start opens the session's segment 1 (or its segment without
\* counter), a rotation opens segment file_number right after segment
\* file_number - 1 of the same timestamp, and the timestamp does not change
\* while recording; a name without counter is given only when no rotation
\* limit is set and no segment was written before, so only to the single
\* segment of the first session; and has_recorded_before never returns to
\* false.
SessionCounters ==
    /\ [][ (pc = "start_open" /\ Len(files') > Len(files)) =>
              /\ file_number = 1
              /\ files'[Len(files')].name \in
                    { PlainName(current_session_timestamp),
                      SuffixedName(current_session_timestamp, 1) }
              /\ files'[Len(files')].name = PlainName(current_session_timestamp) =>
                    /\ Segments = {}
                    /\ ~has_recorded_before
                    /\ max_file_size_mb = 0
                    /\ max_duration_seconds = 0 ]_vars
    /\ [][ (pc = "rot_open" /\ Len(files') > Len(files)) =>
              /\ max_file_size_mb # 0 \/ max_duration_seconds # 0
              /\ files'[Len(files')].name =
                    SuffixedName(current_session_timestamp, file_number)
              /\ current_file_handle \in Segments
              /\ current_file_handle = Len(files)
              /\ files[current_file_handle].name =
                    SuffixedName(current_session_timestamp, file_number - 1) ]_vars
    /\ [][ (is_recording /\ is_recording') =>
              current_session_timestamp' = current_session_timestamp ]_vars
    /\ [](\A k, m \in 1..Len(files) : files[k].name = files[m].name => k = m)
    /\ [][ has_recorded_before => has_recorded_before' ]_vars

\* file k is segment n of the session stamped ts
IsSegment(k, ts, n) == files[k].name = SuffixedName(ts, n)

\* C36 witness: the third segment of a session is open, after segments 1 and 2
ThirdSegmentOpened ==
    /\ is_recording
    /\ pc = "wait"
    /\ file_number = 3
    /\ Segments = { 1, 2, 3 }
    /\ \A n \in 1..3 : IsSegment(n, current_session_timestamp, n)

\* C37: without interrupts and failures, the first segment of a session holds
\* at least one data row when a stop or a rotation closes it, and so does
\* every segment that a rotation closes; a segment opened by a rotation can be
\* closed by a stop holding its header only (the witness).
FirstSegmentHasRow ==
    /\ [][ (faults = 0 /\ pc = "stop" /\ pc' # "exited" /\ file_number = 1) =>
              /\ ~files'[current_file_handle].open
              /\ RowsIn(files'[current_file_handle].log) >= 1 ]_vars
    /\ [][ (faults = 0 /\ pc = "rot_close" /\ pc' # "exited") =>
              /\ ~files'[current_file_handle].open
              /\ RowsIn(files'[current_file_handle].log) >= 1 ]_vars
    /\ [][ (faults = 0 /\ pc = "start_commit" /\ is_recording') => pc' = "row" ]_vars

\* C37 witness: a stop has closed a segment opened by a rotation that holds
\* only its header, in a run without failure or interrupt
RotatedSegmentClosedEmpty ==
    /\ faults = 0
    /\ ~interrupted
    /\ pc = "wait"
    /\ "stopped" \in printed
    /\ file_number >= 2
    /\ ~files[Len(files)].open
    /\ files[Len(files)].log = << HeaderToken >>
    /\ RowsIn(files[1].log) >= 1

====
